---------------------------- MODULE Spec2Model ----------------------------
(***************************************************************************)
(* The "Fifteen-Twenty" finger-guessing game: the round and session logic  *)
(* of GameWindow (src/main.py), the gesture feed of CameraThread and       *)
(* GestureRecognizer.process_frame, and the transcript feed of             *)
(* AudioProcessor (src/audio_processor.py).                                *)
(*                                                                         *)
(* Time is counted in whole seconds (the unit of the four timer lengths of *)
(* the source).  A handler runs in zero time.  Every QTimer.singleShot is  *)
(* an entry of the bag `timers`; an entry fires once `now` reaches its due *)
(* time, and time does not advance past a due timer.                       *)
(*                                                                         *)
(* GameWindow's handlers are written as operators on a context record      *)
(*   [w: the window's fields, arm: timers requested, exc: exception        *)
(*    raised, out: executions of the scoring body, started: start_round's  *)
(*    reset ran, closed: the window was closed]                            *)
(* so that a handler that calls another one, or that raises half-way, is   *)
(* translated statement by statement.                                      *)
(***************************************************************************)
EXTENDS Integers, Sequences, FiniteSets, Bags, TLC

VARIABLES
    gw,          \* the fields of GameWindow (and AudioProcessor.running)
    timers,      \* bag of pending single-shot timers [cb, due, delay, rnd]
    now,         \* the wall clock, in seconds
    proc,        \* "running" | "aborted" (unhandled exception) | "closed"
    stubbed,     \* the parts a test fixture supplies (see Fixture); {} as built
    horizon,     \* the time up to which the model runs
    quota,       \* the number of inputs the model delivers
    voicePc,     \* position of the audio thread: "idle" | "in" (on_voice_input)
                 \*   | "called" (past the call assignment, see ExtractCall)
    voiceText,   \* the transcript the audio thread is handling
    roundNo,     \* history: number of start_round executions
    resolved,    \* history: scoring-body executions since the last start_round
    events,      \* history: inputs delivered so far (bounds the model)
    ap,          \* the AudioProcessor object: its queue, processing thread
                 \*   and input stream.  AudioSpec follows them; the other
                 \*   specifications know of the object its flag
                 \*   gw.audio_running and the transcripts it delivers.
    cam          \* the CameraThread object and the signals it has emitted.
                 \*   CameraSpec follows them; the other specifications
                 \*   know of the thread the events it delivers.

vars == <<gw, timers, now, proc, stubbed, horizon, quota, voicePc, voiceText,
          roundNo, resolved, events, ap, cam>>

---------------------------------------------------------------------------
(* Bounds of the model: a long run with few inputs (MaxTime, MaxEvents),  *)
(* a short run with more inputs (ShortTime, MoreEvents), and the number of *)
(* timers pending when an input is delivered.                              *)
MaxTime == 19
MaxEvents == 2
ShortTime == 8
MoreEvents == 3
MaxTimers == 3
\* The seconds a run lasts that starts late in a session (see InitLate).
LateSpan == 3
\* The longest transcript extract_number is applied to (see InitExtract).
MaxLen == 3
\* The chunks waiting in AudioProcessor.audio_queue.
MaxQueue == 2

(* Program constants *)
READY_DELAY == 3
ROUND_TIMEOUT == 15
STILLNESS == 1
RESULT_PAUSE == 2
max_rounds == 5
HISTORY_LEN == 3
max_hands == 2
max_retries == 3

(* None of each optional field *)
NoGesture == "None"
NoCall == -1
NoTime == -1

WAITING == "waiting"
PLAYING == "playing"
FINISHED == "finished"

---------------------------------------------------------------------------
(* Values *)

\* random.choice(["0", "5"]) of auto_process_round and process_round
GestureChoices == {"0", "5"}
\* Calls of which one, 5, can also be given as a player's call in range (a
\* mutant of CallChoices).
CallChoices_low == {0, 5}
\* Calls that two hands of "0" or "5" can add up to (a mutant of
\* CallChoices).
CallChoices_reachable == {5, 10}
\* random.choice([15, 20]) of auto_process_round and process_round
CallChoices == {15, 20}

\* The widget attributes init_ui / add_right_side_components create.
BuiltWidgets == {"model_display", "camera_display", "status_label",
                 "start_button", "exit_button", "rule_button",
                 "player_score_label", "computer_score_label",
                 "draw_score_label", "record_label"}
\* The widget attributes the handlers use and no code creates.
UiLabels == {"round_label", "player_number_label",
             "computer_number_label", "total_label"}
EventLabels == {"gesture_label", "voice_label"}

\* The attributes the window object has.
attrs == BuiltWidgets
         \cup (IF "ui" \in stubbed THEN UiLabels ELSE {})
         \cup (IF "events" \in stubbed THEN EventLabels ELSE {})

---------------------------------------------------------------------------
(* AudioProcessor.extract_number *)

\* The characters of a transcript, named in ASCII:
\*   ling 零, yi 一, er 二, liang 两, san 三, si 四, wu 五, liu 六, qi 七,
\*   ba 八, jiu 九, shi 十, bai 百, qian 千, wan 万, d0..d9 the ASCII digits,
\*   tui chu you xi 退 出 游 戏, kai shi_ 开 始.
cn_num(ch) ==
    CASE ch = "ling" -> 0 [] ch = "yi" -> 1 [] ch = "er" -> 2
      [] ch = "san" -> 3 [] ch = "si" -> 4 [] ch = "wu" -> 5
      [] ch = "liu" -> 6 [] ch = "qi" -> 7 [] ch = "ba" -> 8
      [] ch = "jiu" -> 9 [] ch = "shi" -> 10
      [] ch = "bai" -> 100 [] ch = "qian" -> 1000 [] ch = "wan" -> 10000
      [] ch = "d0" -> 0 [] ch = "d1" -> 1 [] ch = "d2" -> 2
      [] ch = "d3" -> 3 [] ch = "d4" -> 4 [] ch = "d5" -> 5
      [] ch = "d6" -> 6 [] ch = "d7" -> 7 [] ch = "d8" -> 8
      [] ch = "d9" -> 9 [] ch = "liang" -> 2
      [] OTHER -> -1

in_cn_num(ch) == cn_num(ch) # -1

\* text.replace('零', '0').replace('两', '二')
preprocess(text) ==
    [i \in 1..Len(text) |->
        IF text[i] = "ling" THEN "d0"
        ELSE IF text[i] = "liang" THEN "er" ELSE text[i]]

\* A scan that returns the first table character's value, in range or not
\* (a mutant of scan_number).
RECURSIVE scan_any(_, _)
scan_any(text, i) ==
    IF i > Len(text) THEN NoCall
    ELSE IF in_cn_num(text[i]) THEN cn_num(text[i])
         ELSE scan_any(text, i + 1)

\* A scan that stops at the first table character and returns its value
\* only if it is in range (a mutant of scan_number).
RECURSIVE scan_first(_, _)
scan_first(text, i) ==
    IF i > Len(text) THEN NoCall
    ELSE IF in_cn_num(text[i])
         THEN (IF 0 <= cn_num(text[i]) /\ cn_num(text[i]) <= 5
               THEN cn_num(text[i]) ELSE NoCall)
         ELSE scan_first(text, i + 1)

RECURSIVE scan_number(_, _)
scan_number(text, i) ==
    IF i > Len(text) THEN NoCall
    ELSE IF in_cn_num(text[i]) /\ 0 <= cn_num(text[i]) /\ cn_num(text[i]) <= 5
         THEN cn_num(text[i])
         ELSE scan_number(text, i + 1)

extract_number(text) == scan_number(preprocess(text), 1)

\* "needle in text" of Python, on sequences of characters
Contains(text, needle) ==
    \E i \in 1..(Len(text) - Len(needle) + 1) :
        SubSeq(text, i, i + Len(needle) - 1) = needle

ExitPhrase == <<"tui", "chu", "you", "xi">>
StartPhrase == <<"kai", "shi_">>
\* "15 15", the other start command ("sp" is the space)
StartDigits == <<"d1", "d5", "sp", "d1", "d5">>

\* The transcripts the recognizer delivers in the model.
Transcripts == { <<"wu">>, <<"ling">>, <<"ba">>, ExitPhrase, StartPhrase }

---------------------------------------------------------------------------
(* GestureRecognizer.process_frame and CameraThread.run *)

GESTURE_NAME_MAPPING(category) ==
    CASE category = "Closed_Fist" -> 0
      [] category = "Open_Palm" -> 5
      [] OTHER -> -1

Categories == {"Closed_Fist", "Open_Palm", "Victory"}

\* The hands one frame shows: one or two recognized categories.
Frames == UNION { [1..n -> Categories] : n \in 1..max_hands }

RECURSIVE sum_detected(_, _)
sum_detected(hands, i) ==
    IF i > Len(hands) THEN 0
    ELSE (IF GESTURE_NAME_MAPPING(hands[i]) # -1
          THEN GESTURE_NAME_MAPPING(hands[i]) ELSE 0)
         + sum_detected(hands, i + 1)

str(n) == CASE n = 0 -> "0" [] n = 5 -> "5" [] n = 10 -> "10" [] OTHER -> "?"

\* str(sum(detected_numbers)) if detected_numbers else None
process_frame(hands) ==
    IF \E i \in 1..Len(hands) : GESTURE_NAME_MAPPING(hands[i]) # -1
    THEN str(sum_detected(hands, 1))
    ELSE NoGesture

\* What CameraThread.run emits through gesture_detected.
CameraFeed == { process_frame(h) : h \in Frames } \ {NoGesture}
\* What a fixture passes to on_gesture_detected.
HandlerFeed == {"Fist", "Palm", "Victory"}

GestureFeed == IF "feed" \in stubbed THEN HandlerFeed ELSE CameraFeed

---------------------------------------------------------------------------
(* GameWindow *)

\* A window whose AudioProcessor is started with the window (a mutant of
\* init_game).
init_game_listening ==
    [state |-> WAITING, score_player |-> 0, score_computer |-> 0,
     score_draws |-> 0, valid_rounds |-> 0,
     reaction_times |-> <<>>, round_records |-> <<>>,
     round_start_time |-> NoTime,
     player_gesture |-> NoGesture, player_call |-> NoCall,
     computer_gesture |-> NoGesture, computer_call |-> NoCall,
     round_processed |-> FALSE,
     audio_running |-> TRUE, report_open |-> FALSE,
     status |-> "waiting"]

\* init_game
init_game ==
    [state |-> WAITING, score_player |-> 0, score_computer |-> 0,
     score_draws |-> 0, valid_rounds |-> 0,
     reaction_times |-> <<>>, round_records |-> <<>>,
     round_start_time |-> NoTime,
     player_gesture |-> NoGesture, player_call |-> NoCall,
     computer_gesture |-> NoGesture, computer_call |-> NoCall,
     round_processed |-> FALSE,
     audio_running |-> FALSE, report_open |-> FALSE,
     status |-> "waiting"]

Ctx(w) == [w |-> w, arm |-> <<>>, exc |-> "none", out |-> 0,
           started |-> FALSE, closed |-> FALSE]
Raise(c, e) == [c EXCEPT !.exc = e]
\* QTimer.singleShot(delay, cb)
singleShot(c, delay, cb) == [c EXCEPT !.arm = Append(@, <<delay, cb>>)]

\* update_ui: the first label it sets that the window lacks raises.
update_ui(c) ==
    IF UiLabels \subseteq attrs THEN c ELSE Raise(c, "AttributeError")

\* int(g) of process_round's convert_gesture
convert_gesture(g) == CASE g = "0" -> 0 [] g = "5" -> 5 [] OTHER -> -1

\* The if / elif / else of process_round that names the outcome.
Outcome(player_call, computer_call, total) ==
    IF player_call = total /\ player_call # computer_call THEN "PlayerWin"
    ELSE IF computer_call = total /\ player_call # computer_call
         THEN "ComputerWin"
         ELSE "Draw"

\* seq[-n:]
\* A truncation that keeps the oldest n entries (a mutant of LastN).
LastN_oldest(seq, n) ==
    IF Len(seq) <= n THEN seq ELSE SubSeq(seq, 1, n)

LastN(seq, n) ==
    IF Len(seq) <= n THEN seq ELSE SubSeq(seq, Len(seq) - n + 1, Len(seq))

\* A stillness test that never defers (a mutant of TooEarly).
TooEarly_never(elapsed) == FALSE

\* The stillness test of process_round: elapsed < 1
TooEarly(elapsed) == elapsed < STILLNESS

\* A scoring body that credits a player's win to the computer and a
\* computer's win to the player (a mutant of score_round).
score_round_swapped(w, cg, cc) ==
    LET total == convert_gesture(w.player_gesture) + convert_gesture(cg)
        outcome == Outcome(w.player_call, cc, total)
        record == [pg |-> w.player_gesture, pc |-> w.player_call,
                   cg |-> cg, cc |-> cc, total |-> total,
                   result |-> outcome]
    IN [w EXCEPT
          !.round_processed = TRUE,
          !.status = outcome,
          !.computer_gesture = cg,
          !.computer_call = cc,
          !.score_player = IF outcome = "ComputerWin" THEN @ + 1 ELSE @,
          !.score_computer = IF outcome = "PlayerWin" THEN @ + 1 ELSE @,
          !.score_draws = IF outcome = "Draw" THEN @ + 1 ELSE @,
          !.reaction_times = IF w.round_start_time # 0
                             THEN Append(@, now - w.round_start_time) ELSE @,
          !.valid_rounds = IF outcome # "Draw" THEN @ + 1 ELSE @,
          !.round_records = LastN(Append(@, record), HISTORY_LEN)]

\* A scoring body that counts every round, drawn or not, as valid (a mutant
\* of score_round).
score_round_every(w, cg, cc) ==
    LET total == convert_gesture(w.player_gesture) + convert_gesture(cg)
        outcome == Outcome(w.player_call, cc, total)
        record == [pg |-> w.player_gesture, pc |-> w.player_call,
                   cg |-> cg, cc |-> cc, total |-> total,
                   result |-> outcome]
    IN [w EXCEPT
          !.round_processed = TRUE,
          !.status = outcome,
          !.computer_gesture = cg,
          !.computer_call = cc,
          !.score_player = IF outcome = "PlayerWin" THEN @ + 1 ELSE @,
          !.score_computer = IF outcome = "ComputerWin" THEN @ + 1 ELSE @,
          !.score_draws = IF outcome = "Draw" THEN @ + 1 ELSE @,
          !.reaction_times = IF w.round_start_time # 0
                             THEN Append(@, now - w.round_start_time) ELSE @,
          !.valid_rounds = @ + 1,
          !.round_records = LastN(Append(@, record), HISTORY_LEN)]

\* The scoring body of process_round (from round_processed = True to the
\* truncation of round_records), with the computer's draws cg, cc.
score_round(w, cg, cc) ==
    LET total == convert_gesture(w.player_gesture) + convert_gesture(cg)
        outcome == Outcome(w.player_call, cc, total)
        record == [pg |-> w.player_gesture, pc |-> w.player_call,
                   cg |-> cg, cc |-> cc, total |-> total,
                   result |-> outcome]
    IN [w EXCEPT
          !.round_processed = TRUE,
          !.status = outcome,
          !.computer_gesture = cg,
          !.computer_call = cc,
          !.score_player = IF outcome = "PlayerWin" THEN @ + 1 ELSE @,
          !.score_computer = IF outcome = "ComputerWin" THEN @ + 1 ELSE @,
          !.score_draws = IF outcome = "Draw" THEN @ + 1 ELSE @,
          !.reaction_times = IF w.round_start_time # 0
                             THEN Append(@, now - w.round_start_time) ELSE @,
          !.valid_rounds = IF outcome # "Draw" THEN @ + 1 ELSE @,
          !.round_records = LastN(Append(@, record), HISTORY_LEN)]

\* The follow-up process_round schedules after update_ui(total).
follow_up(c) ==
    IF c.w.valid_rounds >= max_rounds
    THEN singleShot(c, RESULT_PAUSE, "end_game")
    ELSE singleShot(c, RESULT_PAUSE, "start_round")

process_round(c, cg, cc) ==
    IF c.w.player_gesture = NoGesture \/ c.w.player_call = NoCall THEN c
    ELSE IF c.w.round_start_time = NoTime THEN Raise(c, "TypeError")
    ELSE IF TooEarly(now - c.w.round_start_time)
         THEN singleShot(c, STILLNESS - (now - c.w.round_start_time),
                         "process_round")
    ELSE LET w1 == score_round(c.w, cg, cc)
             c1 == update_ui([c EXCEPT !.w = w1, !.out = @ + 1])
         IN IF c1.exc # "none" THEN c1 ELSE follow_up(c1)

start_round(c) ==
    LET w1 == [c.w EXCEPT !.round_processed = FALSE,
                          !.player_gesture = NoGesture,
                          !.player_call = NoCall,
                          !.computer_gesture = NoGesture,
                          !.computer_call = NoCall,
                          !.round_start_time = now,
                          !.status = "input"]
        c1 == update_ui([c EXCEPT !.w = w1, !.started = TRUE])
    IN IF c1.exc # "none" THEN c1
       ELSE singleShot(c1, ROUND_TIMEOUT, "auto_process_round")

\* The guard of auto_process_round.
auto_skips(w) == w.state # PLAYING \/ w.round_processed

auto_process_round(c, rg, rc, cg, cc) ==
    IF auto_skips(c.w) THEN c
    ELSE LET w1 == [c.w EXCEPT
                      !.player_gesture = IF @ = NoGesture THEN rg ELSE @,
                      !.player_call = IF @ = NoCall THEN rc ELSE @]
         IN process_round([c EXCEPT !.w = w1], cg, cc)

\* A start_game that keeps the reaction times of the session before (a
\* mutant of start_game).
start_game_keeps_times(c) ==
    LET w1 == [c.w EXCEPT !.state = PLAYING,
                          !.score_player = 0, !.score_computer = 0,
                          !.score_draws = 0, !.valid_rounds = 0,
                          !.round_records = <<>>,
                          !.audio_running = TRUE,
                          !.report_open = FALSE,
                          !.status = "ready"]
    IN singleShot([c EXCEPT !.w = w1], READY_DELAY, "start_round")

start_game(c) ==
    LET w1 == [c.w EXCEPT !.state = PLAYING,
                          !.score_player = 0, !.score_computer = 0,
                          !.score_draws = 0, !.valid_rounds = 0,
                          !.reaction_times = <<>>, !.round_records = <<>>,
                          !.audio_running = TRUE,
                          !.report_open = FALSE,
                          !.status = "ready"]
    IN singleShot([c EXCEPT !.w = w1], READY_DELAY, "start_round")

\* end_game up to msg_box.exec(); the dialog's buttons are clicks.
end_game(c) ==
    [c EXCEPT !.w = [c.w EXCEPT !.state = FINISHED,
                                !.audio_running = FALSE,
                                !.report_open = TRUE]]

\* closeEvent: the threads are stopped and the window closes.
closeEvent(c) ==
    [c EXCEPT !.w = [c.w EXCEPT !.audio_running = FALSE], !.closed = TRUE]

exit_game(c) == closeEvent(c)

\* A handler that also ends the session (a mutant of on_camera_error).
on_camera_error_ends(c) ==
    [c EXCEPT !.w.status = "camera_error", !.w.state = FINISHED]

\* on_camera_error: the message goes to the status label.
on_camera_error(c) ==
    IF "status_label" \in attrs THEN [c EXCEPT !.w.status = "camera_error"]
    ELSE Raise(c, "AttributeError")

\* mapping.get(gesture, None) of on_gesture_detected
gesture_mapping(gesture) ==
    CASE gesture = "Fist" -> "0" [] gesture = "Palm" -> "5"
      [] OTHER -> NoGesture

on_gesture_detected(c, gesture, cg, cc) ==
    IF c.w.state # PLAYING THEN c
    ELSE IF gesture_mapping(gesture) = NoGesture THEN c
    ELSE IF "gesture_label" \notin attrs THEN Raise(c, "AttributeError")
    ELSE LET c1 == [c EXCEPT !.w.player_gesture = gesture_mapping(gesture)]
         IN IF c1.w.player_call # NoCall THEN process_round(c1, cg, cc)
            ELSE c1

\* on_voice_input up to the two command branches (lines 544-550):
\* "handled" tells that the handler returned there.
voice_commands(c, text) ==
    IF c.w.state = WAITING
       /\ (Contains(text, StartPhrase) \/ Contains(text, StartDigits))
    THEN [ctx |-> start_game(c), handled |-> TRUE]
    ELSE IF Contains(text, ExitPhrase)
         THEN [ctx |-> exit_game(c), handled |-> TRUE]
         ELSE [ctx |-> c, handled |-> FALSE]

\* on_voice_input from voice_label.setText on (lines 552-557).
voice_number(c, text, cg, cc) ==
    IF "voice_label" \notin attrs THEN Raise(c, "AttributeError")
    ELSE IF extract_number(text) = NoCall THEN c
    ELSE LET c1 == [c EXCEPT !.w.player_call = extract_number(text)]
         IN IF c1.w.player_gesture # NoGesture
            THEN process_round(c1, cg, cc)
            ELSE c1

\* on_voice_input, whole.
on_voice_input(c, text, cg, cc) ==
    LET r == voice_commands(c, text)
    IN IF r.handled THEN r.ctx ELSE voice_number(r.ctx, text, cg, cc)

---------------------------------------------------------------------------
(* AudioProcessor: the queue, the processing thread and the input stream *)

\* AudioProcessor.__init__ (self.running is gw.audio_running).
\*   audio_queue        the chunks put by audio_callback ("chunk") and the
\*                      sentinels put by stop() ("None")
\*   processing_thread  "none", or where the thread of process_audio is:
\*                      "top" (at the test of `while self.running`), "get"
\*                      (in audio_queue.get), "generate" (recognizing a
\*                      chunk), "ended"
\*   others             earlier processing threads that have not ended
\*   stream             "none" | "active" | "closed"
\*   caller             the method of the GUI thread that waits in
\*                      processing_thread.join(), or "idle"
\*   heard              history: the texts passed to the callback since the
\*                      last start()
audio_init ==
    [audio_queue |-> <<>>, last_text |-> <<>>, processing_thread |-> "none",
     others |-> 0, stream |-> "none", caller |-> "idle", heard |-> <<>>]

Alive == {"top", "get", "generate"}

\* AudioProcessor.start, called while self.running is `running`.
audio_start(a, running) ==
    IF running THEN a
    ELSE [a EXCEPT
            !.others = IF a.processing_thread \in Alive THEN @ + 1 ELSE @,
            !.processing_thread = "top",
            !.stream = "active",
            !.heard = <<>>]

\* AudioProcessor.stop on the GUI thread, up to processing_thread.join().
audio_stop_to_join(a, running, method) ==
    IF ~running THEN a
    ELSE [a EXCEPT !.audio_queue = Append(@, "None"), !.caller = method]

\* AudioProcessor.stop on the GUI thread, from the return of join() on.
audio_stop_from_join(a) ==
    [a EXCEPT !.stream = "closed", !.last_text = <<>>, !.caller = "idle"]

\* AudioProcessor.stop called inside the callback, on the processing thread
\* itself: join() raises RuntimeError (a thread cannot join itself), which
\* closeEvent catches, and the rest of stop() does not run.
audio_stop_in_thread(a, running) ==
    IF ~running THEN a
    ELSE [a EXCEPT !.audio_queue = Append(@, "None")]

\* A test that passes every non-empty text (a mutant of fresh).
fresh_nonempty(text, last_text) == Len(text) > 0

\* text != self.last_text and len(text) > 0
fresh(text, last_text) == text # last_text /\ Len(text) > 0

\* res[0]['text'].strip() of process_audio: a transcript or nothing.
Results == Transcripts \cup {<<>>}

---------------------------------------------------------------------------
(* CameraThread *)

\* CameraThread.__init__, started by start_camera.
\*   pc           where the thread is: "start" (run entered), "init" (at the
\*                test of initialize_camera's while), "open" (in its try),
\*                "loop" (at the test of run's while), "frame" (in its try),
\*                "ended"
\*   cap          "none" | "open" | "released"
\*   result       what initialize_camera returned last
\*   waiting      the GUI thread waits in stop() for the thread to end
\*   signals      the signals emitted and not yet delivered to the window
\*   failed       history: failed attempts of initialize_camera
\*   opens        history: successful attempts of initialize_camera
camera_init ==
    [pc |-> "start", running |-> TRUE, cap |-> "none", retry_count |-> 0,
     result |-> "none", waiting |-> FALSE, signals |-> <<>>,
     failed |-> 0, opens |-> 0]

\* A successful attempt that renews the budget (a mutant of open_succeeds).
open_succeeds_renewing(t) ==
    [t EXCEPT !.cap = "open", !.result = "True", !.pc = "loop",
              !.retry_count = 0, !.opens = @ + 1]

\* initialize_camera: the try block runs to `return True`.
open_succeeds(t) ==
    [t EXCEPT !.cap = "open", !.result = "True", !.pc = "loop",
              !.opens = @ + 1]

\* initialize_camera: the except block.
open_fails(t) ==
    [t EXCEPT !.retry_count = @ + 1, !.cap = "released", !.pc = "init",
              !.failed = @ + 1]

\* initialize_camera: the budget is used up; both callers in run end the
\* thread on False.
give_up(t) ==
    [t EXCEPT !.signals = Append(@, "error"), !.result = "False",
              !.pc = "ended"]

\* run: the except block of the frame loop, up to initialize_camera.
frame_fails(t) ==
    [t EXCEPT !.signals = Append(@, "error"), !.pc = "init",
              !.cap = IF @ = "none" THEN @ ELSE "released"]

\* CameraThread.stop, up to self.wait().
camera_stop(t) ==
    [t EXCEPT !.running = FALSE, !.waiting = TRUE,
              !.cap = IF @ = "none" THEN @ ELSE "released"]

---------------------------------------------------------------------------
(* The event loop *)

\* The timer entries a handler's requests make, armed now in round roundNo'.
Armed(c, rnd) ==
    LET entry(i) == [cb |-> c.arm[i][2], due |-> now + c.arm[i][1],
                     delay |-> c.arm[i][1], rnd |-> rnd]
        RECURSIVE bag(_)
        bag(i) == IF i > Len(c.arm) THEN EmptyBag
                  ELSE SetToBag({entry(i)}) (+) bag(i + 1)
    IN bag(1)

NewRoundNo(c) == IF c.started THEN roundNo + 1 ELSE roundNo

\* The state after a handler that ended in context c; `rest` is the bag of
\* timers left, `gui` tells that it ran on the GUI thread, `kept` that the
\* timers it requested are delivered.  An exception that leaves a slot of
\* the GUI thread aborts the process unless an exception hook is installed.
Commit(c, rest, gui, kept) ==
    /\ gw' = c.w
    /\ timers' = IF kept THEN rest (+) Armed(c, NewRoundNo(c)) ELSE rest
    /\ proc' = IF c.closed THEN "closed"
               ELSE IF gui /\ c.exc # "none" /\ "hook" \notin stubbed
                    THEN "aborted"
               ELSE proc
    /\ roundNo' = NewRoundNo(c)
    /\ resolved' = (IF c.started THEN 0 ELSE resolved) + c.out
    /\ UNCHANGED <<now, stubbed, horizon, quota>>

Pending == BagCardinality(timers)

\* Time passes: no pending timer is overdue.  The clock starts with the
\* first session: while the window waits for it no timer is pending and no
\* handler reads the time.
Tick ==
    /\ proc = "running"
    /\ gw.state # WAITING
    /\ now < horizon
    /\ \A t \in BagToSet(timers) : t.due > now
    /\ now' = now + 1
    /\ UNCHANGED <<cam, gw, timers, proc, stubbed, horizon, quota, voicePc,
                   voiceText, roundNo, resolved, events, ap>>

\* The callback of a single-shot timer.
Dispatch(cb, rg, rc, cg, cc) ==
    CASE cb = "start_round" -> start_round(Ctx(gw))
      [] cb = "auto_process_round" ->
            auto_process_round(Ctx(gw), rg, rc, cg, cc)
      [] cb = "process_round" -> process_round(Ctx(gw), cg, cc)
      [] cb = "end_game" -> end_game(Ctx(gw))

TimerFire ==
    /\ proc = "running"
    /\ \E t \in BagToSet(timers), rg \in GestureChoices, rc \in CallChoices,
          cg \in GestureChoices, cc \in CallChoices :
          /\ t.due <= now
          /\ Commit(Dispatch(t.cb, rg, rc, cg, cc),
                    timers (-) SetToBag({t}), TRUE, TRUE)
    /\ UNCHANGED <<cam, voicePc, voiceText, events, ap>>

\* The buttons the user can press: the window's while no dialog is open,
\* the report dialog's while it is.
Buttons == IF gw.report_open THEN {"continue", "quit"} ELSE {"start", "exit"}

OnClick(button) ==
    CASE button \in {"start", "continue"} -> start_game(Ctx(gw))
      [] button \in {"exit", "quit"} -> exit_game(Ctx(gw))

Click ==
    /\ proc = "running"
    /\ events < quota
    /\ Pending < MaxTimers
    /\ \E b \in Buttons :
          Commit(OnClick(b), timers, TRUE, TRUE)
    /\ events' = events + 1
    /\ UNCHANGED <<cam, voicePc, voiceText, ap>>

\* gesture_detected delivered to on_gesture_detected on the GUI thread.
GestureEvent ==
    /\ proc = "running"
    /\ events < quota
    /\ Pending < MaxTimers
    /\ \E g \in GestureFeed, cg \in GestureChoices, cc \in CallChoices :
          Commit(on_gesture_detected(Ctx(gw), g, cg, cc), timers,
                 TRUE, TRUE)
    /\ events' = events + 1
    /\ UNCHANGED <<cam, voicePc, voiceText, ap>>

\* The audio thread enters on_voice_input (AudioProcessor.process_audio
\* calls the callback itself) and runs its two command branches.
VoiceEnter ==
    /\ proc = "running"
    /\ gw.audio_running
    /\ voicePc = "idle"
    /\ events < quota
    /\ Pending < MaxTimers
    /\ \E text \in Transcripts :
          LET r == voice_commands(Ctx(gw), text) IN
          /\ Commit(r.ctx, timers, FALSE, TRUE)
          /\ voicePc' = IF r.handled THEN "idle" ELSE "in"
          /\ voiceText' = IF r.handled THEN <<>> ELSE text
    /\ events' = events + 1
    /\ UNCHANGED <<cam, ap>>

\* The audio thread runs the rest of on_voice_input.  A timer requested
\* from this thread, which runs no Qt event loop, is delivered or lost.
VoiceBody ==
    /\ proc = "running"
    /\ voicePc = "in"
    /\ \E cg \in GestureChoices, cc \in CallChoices, kept \in BOOLEAN :
          Commit(voice_number(Ctx(gw), voiceText, cg, cc), timers,
                 FALSE, kept)
    /\ voicePc' = "idle"
    /\ voiceText' = <<>>
    /\ UNCHANGED <<cam, events, ap>>

Next == Tick \/ TimerFire \/ Click \/ GestureEvent \/ VoiceEnter \/ VoiceBody

\* error_occurred delivered to on_camera_error on the GUI thread.
CameraError ==
    /\ proc = "running"
    /\ events < quota
    /\ Commit(on_camera_error(Ctx(gw)), timers, TRUE, TRUE)
    /\ events' = events + 1
    /\ UNCHANGED <<cam, voicePc, voiceText, ap>>

NextCam == Next \/ CameraError

(* AudioProcessor and its callers *)

\* The start or continue button: start_game, which calls start().
AudioStartGame ==
    /\ proc = "running"
    /\ ap.caller = "idle"
    /\ events < quota
    /\ Pending < MaxTimers
    /\ Buttons \cap {"start", "continue"} # {}
    /\ Commit(start_game(Ctx(gw)), timers, TRUE, TRUE)
    /\ ap' = audio_start(ap, gw.audio_running)
    /\ events' = events + 1
    /\ UNCHANGED <<cam, voicePc, voiceText>>

\* end_game runs on the GUI thread (the session's last timer) and calls
\* stop(), which waits in join().  The AudioProcessor cannot tell when in
\* a session that is: here it is any time of a session.
AudioEndGame ==
    /\ proc = "running"
    /\ ap.caller = "idle"
    /\ events < quota
    /\ gw.state = PLAYING
    /\ gw' = end_game(Ctx(gw)).w
    /\ ap' = audio_stop_to_join(ap, gw.audio_running, "end_game")
    /\ events' = events + 1
    /\ UNCHANGED <<cam, timers, now, proc, stubbed, horizon, quota, voicePc,
                   voiceText, roundNo, resolved>>

\* The exit button (the window's or the report's): closeEvent on the GUI
\* thread, which calls stop().
AudioExit ==
    /\ proc = "running"
    /\ ap.caller = "idle"
    /\ events < quota
    /\ gw' = closeEvent(Ctx(gw)).w
    /\ ap' = audio_stop_to_join(ap, gw.audio_running, "closeEvent")
    /\ proc' = IF gw.audio_running THEN proc ELSE "closed"
    /\ events' = events + 1
    /\ UNCHANGED <<cam, timers, now, stubbed, horizon, quota, voicePc, voiceText,
                   roundNo, resolved>>

\* join() returns to stop() once the processing thread has ended.
AudioStopReturns ==
    /\ proc = "running"
    /\ ap.caller # "idle"
    /\ ap.processing_thread = "ended"
    /\ ap' = audio_stop_from_join(ap)
    /\ proc' = IF ap.caller = "closeEvent" THEN "closed" ELSE proc
    /\ UNCHANGED <<cam, gw, timers, now, stubbed, horizon, quota, voicePc,
                   voiceText, roundNo, resolved, events>>

\* audio_callback: the stream puts a chunk above the noise threshold.
audio_callback ==
    /\ proc = "running"
    /\ ap.stream = "active"
    /\ events < quota
    /\ Len(ap.audio_queue) < MaxQueue
    /\ ap' = [ap EXCEPT !.audio_queue = Append(@, "chunk")]
    /\ events' = events + 1
    /\ UNCHANGED <<cam, gw, timers, now, proc, stubbed, horizon, quota, voicePc,
                   voiceText, roundNo, resolved>>

\* process_audio: while self.running
ProcessTest ==
    /\ proc # "aborted"
    /\ ap.processing_thread = "top"
    /\ ap' = [ap EXCEPT !.processing_thread =
                 IF gw.audio_running THEN "get" ELSE "ended"]
    /\ UNCHANGED <<cam, gw, timers, now, proc, stubbed, horizon, quota, voicePc,
                   voiceText, roundNo, resolved, events>>

\* process_audio: audio_queue.get(timeout=0.5); None breaks the loop, and
\* queue.Empty continues it.
ProcessGet ==
    /\ proc # "aborted"
    /\ ap.processing_thread = "get"
    /\ ap' = IF ap.audio_queue = <<>>
             THEN [ap EXCEPT !.processing_thread = "top"]
             ELSE [ap EXCEPT
                     !.audio_queue = Tail(@),
                     !.processing_thread =
                         IF Head(ap.audio_queue) = "None" THEN "ended"
                         ELSE "generate"]
    /\ UNCHANGED <<cam, gw, timers, now, proc, stubbed, horizon, quota, voicePc,
                   voiceText, roundNo, resolved, events>>

\* process_audio: the recognizer's result; a fresh text is remembered and
\* passed to the callback, on_voice_input, which runs on this thread.  If it
\* closes the window, closeEvent calls stop() from this thread.
ProcessResult ==
    /\ proc # "aborted"
    /\ ap.processing_thread = "generate"
    /\ \E text \in Results :
          IF fresh(text, ap.last_text)
          THEN \E cg \in GestureChoices, cc \in CallChoices, kept \in BOOLEAN :
                  LET c == on_voice_input(Ctx(gw), text, cg, cc)
                      a == IF c.closed
                           THEN audio_stop_in_thread(ap, gw.audio_running)
                           ELSE ap
                  IN /\ Commit(c, timers, FALSE, kept)
                     /\ ap' = [a EXCEPT !.last_text = text,
                                         !.heard = Append(@, text),
                                         !.processing_thread = "top"]
          ELSE /\ ap' = [ap EXCEPT !.processing_thread = "top"]
               /\ UNCHANGED <<gw, timers, now, proc, stubbed, horizon, quota,
                              roundNo, resolved>>
    /\ UNCHANGED <<cam, voicePc, voiceText, events>>

(* CameraThread and the window *)

CamOnly == <<gw, timers, now, proc, stubbed, horizon, quota, voicePc,
             voiceText, roundNo, resolved, events, ap>>

\* run is entered and calls initialize_camera.
RunStart ==
    /\ proc # "aborted"
    /\ cam.pc = "start"
    /\ cam' = [cam EXCEPT !.pc = "init"]
    /\ UNCHANGED CamOnly

\* initialize_camera: while self.retry_count < self.max_retries; past the
\* loop error_occurred is emitted and False returned.
InitTest ==
    /\ proc # "aborted"
    /\ cam.pc = "init"
    /\ cam' = IF cam.retry_count < max_retries
              THEN [cam EXCEPT !.pc = "open"]
              ELSE give_up(cam)
    /\ UNCHANGED CamOnly

\* initialize_camera: one attempt; the device opens or the attempt raises.
InitOpen ==
    /\ proc # "aborted"
    /\ cam.pc = "open"
    /\ cam' \in {open_succeeds(cam), open_fails(cam)}
    /\ UNCHANGED CamOnly

\* run: while self.running
LoopTest ==
    /\ proc # "aborted"
    /\ cam.pc = "loop"
    /\ cam' = [cam EXCEPT !.pc = IF cam.running THEN "frame" ELSE "ended"]
    /\ UNCHANGED CamOnly

\* run: one frame.  It is read and processed, and a recognized gesture is
\* emitted, or the try block raises (always, once the capture is released).
Frame ==
    /\ proc # "aborted"
    /\ cam.pc = "frame"
    /\ events < quota
    /\ \/ /\ cam.cap = "open"
          /\ \E g \in GestureFeed :
                cam' = [cam EXCEPT !.signals = Append(@, g), !.pc = "loop"]
       \/ cam' = frame_fails(cam)
    /\ events' = events + 1
    /\ UNCHANGED <<gw, timers, now, proc, stubbed, horizon, quota, voicePc,
                   voiceText, roundNo, resolved, ap>>

\* The event loop delivers the oldest signal to its slot.
Deliver ==
    /\ proc = "running"
    /\ ~cam.waiting
    /\ cam.signals # <<>>
    /\ \E cg \in GestureChoices, cc \in CallChoices :
          Commit(IF Head(cam.signals) = "error"
                 THEN on_camera_error(Ctx(gw))
                 ELSE on_gesture_detected(Ctx(gw), Head(cam.signals), cg, cc),
                 timers, TRUE, TRUE)
    /\ cam' = [cam EXCEPT !.signals = Tail(@)]
    /\ UNCHANGED <<voicePc, voiceText, events, ap>>

\* The exit button: closeEvent on the GUI thread calls camera_thread.stop().
CameraExit ==
    /\ proc = "running"
    /\ ~cam.waiting
    /\ events < quota
    /\ gw' = closeEvent(Ctx(gw)).w
    /\ cam' = camera_stop(cam)
    /\ events' = events + 1
    /\ UNCHANGED <<timers, now, proc, stubbed, horizon, quota, voicePc,
                   voiceText, roundNo, resolved, ap>>

\* self.wait() returns once run has ended, and the window closes.
CameraStopReturns ==
    /\ proc = "running"
    /\ cam.waiting
    /\ cam.pc = "ended"
    /\ cam' = [cam EXCEPT !.waiting = FALSE]
    /\ proc' = "closed"
    /\ UNCHANGED <<gw, timers, now, stubbed, horizon, quota, voicePc,
                   voiceText, roundNo, resolved, events, ap>>

CameraSteps == RunStart \/ InitTest \/ InitOpen \/ LoopTest \/ Frame

NextCamera == CameraSteps \/ Deliver \/ CameraExit \/ CameraStopReturns

NextAudio ==
    \/ AudioStartGame \/ AudioEndGame \/ AudioExit \/ AudioStopReturns
    \/ audio_callback \/ ProcessTest \/ ProcessGet \/ ProcessResult

InitCommon ==
    /\ gw = init_game
    /\ timers = EmptyBag
    /\ now = 0
    /\ proc = "running"
    /\ voicePc = "idle"
    /\ voiceText = <<>>
    /\ roundNo = 0
    /\ resolved = 0
    /\ events = 0
    /\ ap = audio_init
    /\ cam = camera_init

\* The program as built: GameWindow.__init__.
Init ==
    InitCommon /\ stubbed = {} /\ horizon = MaxTime /\ quota = MoreEvents

\* The parts a test fixture can supply: "ui" the labels of update_ui,
\* "events" the labels of the two event handlers, "feed" handler-level
\* gesture names passed to on_gesture_detected, "hook" an exception hook
\* (sys.excepthook), with which an exception in a slot is reported and the
\* event loop goes on.
Fixture == {"ui", "events", "feed"}

\* GameWindow under a test fixture that gives the window the labels no code
\* creates and passes handler-level gesture names to on_gesture_detected.
InitUnit ==
    InitCommon /\ stubbed = Fixture /\ horizon = MaxTime /\ quota = MaxEvents

\* The same fixture, over a short run with more inputs.
InitRace ==
    InitCommon /\ stubbed = Fixture /\ horizon = ShortTime /\ quota = MoreEvents

\* The same fixture late in a session.  The player has won four rounds, each
\* with a fist and the call "零" given 14 seconds after the round's start,
\* the computer showing "0" and calling 15: rounds started at 3, 19, 35 and
\* 51, the fourth was resolved at 65 and its timeout fired, without effect,
\* at 66.  start_round opened the fifth round at 67 and the player showed a
\* fist at 68.
LateWins == max_rounds - 1
LateAge == ROUND_TIMEOUT - 1
LateRoundStart == READY_DELAY + LateWins * (LateAge + RESULT_PAUSE)
LateNow == LateRoundStart + 1
late_record ==
    [pg |-> "0", pc |-> 0, cg |-> "0", cc |-> 15, total |-> 0,
     result |-> "PlayerWin"]
late_game ==
    [init_game EXCEPT
        !.state = PLAYING,
        !.score_player = LateWins,
        !.valid_rounds = LateWins,
        !.reaction_times = [i \in 1..LateWins |-> LateAge],
        !.round_records = [i \in 1..HISTORY_LEN |-> late_record],
        !.round_start_time = LateRoundStart,
        !.player_gesture = "0",
        !.audio_running = TRUE,
        !.status = "input"]
InitLate ==
    /\ gw = late_game
    /\ timers = SetToBag({
          [cb |-> "auto_process_round",
           due |-> LateRoundStart + ROUND_TIMEOUT, delay |-> ROUND_TIMEOUT,
           rnd |-> LateWins + 1]})
    /\ now = LateNow
    /\ proc = "running"
    /\ stubbed = Fixture
    /\ horizon = LateNow + LateSpan
    /\ quota = MaxEvents
    /\ voicePc = "idle"
    /\ voiceText = <<>>
    /\ roundNo = LateWins + 1
    /\ resolved = 0
    /\ events = 0
    /\ ap = audio_init
    /\ cam = camera_init

\* The same session two seconds later.  The player called "零" at LateNow,
\* the computer showed "0" and called 15: the fifth win was scored there,
\* and end_game has run and shows the report.  The timeout of the fifth
\* round is still pending.
LateReport == LateNow + RESULT_PAUSE
report_game ==
    [late_game EXCEPT
        !.state = FINISHED,
        !.score_player = max_rounds,
        !.valid_rounds = max_rounds,
        !.reaction_times = Append(@, LateNow - LateRoundStart),
        !.player_call = 0,
        !.computer_gesture = "0",
        !.computer_call = 15,
        !.round_processed = TRUE,
        !.audio_running = FALSE,
        !.report_open = TRUE,
        !.status = "PlayerWin"]
InitReport ==
    /\ gw = report_game
    /\ timers = SetToBag({
          [cb |-> "auto_process_round",
           due |-> LateRoundStart + ROUND_TIMEOUT, delay |-> ROUND_TIMEOUT,
           rnd |-> LateWins + 1]})
    /\ now = LateReport
    /\ proc = "running"
    /\ stubbed = Fixture
    /\ horizon = LateReport + LateSpan
    /\ quota = MaxEvents
    /\ voicePc = "idle"
    /\ voiceText = <<>>
    /\ roundNo = LateWins + 1
    /\ resolved = 1
    /\ events = 0
    /\ ap = audio_init
    /\ cam = camera_init

\* The characters of the transcripts extract_number is applied to: digit
\* words in and out of 0..5, the two aliases, digits, and another character.
Alphabet == {"ling", "liang", "san", "wu", "ba", "shi", "d4", "d9", "x"}
Texts == UNION { [1..n -> Alphabet] : n \in 0..MaxLen }

\* The audio thread is in on_voice_input with a transcript that is no
\* command, in a session just started (the fixture's window).
InitExtract ==
    /\ gw = start_game(Ctx(init_game)).w
    /\ timers = SetToBag({[cb |-> "start_round", due |-> READY_DELAY,
                           delay |-> READY_DELAY, rnd |-> 0]})
    /\ now = 0
    /\ proc = "running"
    /\ stubbed = Fixture
    /\ horizon = MaxTime
    /\ quota = MaxEvents
    /\ voicePc = "in"
    /\ voiceText \in Texts
    /\ roundNo = 0
    /\ resolved = 0
    /\ events = MaxEvents
    /\ ap = audio_init
    /\ cam = camera_init

\* on_voice_input from extract_number to the assignment of player_call
\* (lines 553-555): the transcript is still at hand.
ExtractCall ==
    /\ proc = "running"
    /\ voicePc = "in"
    /\ "voice_label" \in attrs
    /\ gw' = [gw EXCEPT !.player_call =
                 IF extract_number(voiceText) = NoCall
                 THEN @ ELSE extract_number(voiceText)]
    /\ voicePc' = "called"
    /\ UNCHANGED <<cam, timers, now, proc, stubbed, horizon, quota, voiceText,
                   roundNo, resolved, events, ap>>

\* GameWindow with the labels of update_ui supplied and nothing else: the
\* camera's own labels are fed and the event handlers lack their labels.
InitUi ==
    InitCommon /\ stubbed = {"ui"} /\ horizon = ShortTime
               /\ quota = MoreEvents

\* GameWindow without the labels of update_ui, with the event handlers'
\* labels, handler-level gesture names and an exception hook: an exception
\* in update_ui ends the handler that called it and the event loop goes on.
InitHook ==
    InitCommon /\ stubbed = {"events", "feed", "hook"} /\ horizon = ShortTime
               /\ quota = MoreEvents

Spec == Init /\ [][Next]_vars
UiSpec == InitUi /\ [][Next]_vars
HookSpec == InitHook /\ [][Next]_vars
ExtractSpec == InitExtract /\ [][ExtractCall]_vars
LateSpec == InitLate /\ [][Next]_vars
ReportSpec == InitReport /\ [][Next]_vars
UnitSpec == InitUnit /\ [][Next]_vars
RaceSpec == InitRace /\ [][Next]_vars
CamSpec == InitUnit /\ [][NextCam]_vars
AudioSpec == InitRace /\ [][NextAudio]_vars
\* The program as built with its camera thread; the thread's steps are
\* taken as long as one is enabled.
CameraSpec == Init /\ [][NextCamera]_vars /\ WF_vars(CameraSteps)

\* The event loop takes its timers in turn and the clock runs on.
FairSpec == Spec /\ WF_vars(Tick) /\ WF_vars(TimerFire)

---------------------------------------------------------------------------
(* The claims *)

\* This step executed the scoring body of process_round.
Scored == resolved' = resolved + 1
\* This step executed start_round.
StartedRound == roundNo' = roundNo + 1
\* A round is open: start_round has run and the round is not resolved.
RoundAwaiting == roundNo > 0 /\ gw.state = PLAYING /\ ~gw.round_processed
\* This step is a timer callback or the gesture handler, on the GUI thread.
GuiStep == TimerFire \/ GestureEvent
\* The value of a gesture "0" or "5".
GestureValue(g) == IF g = "5" THEN 5 ELSE 0
Last(seq) == seq[Len(seq)]

C2_Stillness ==
    [][Scored => now' - gw'.round_start_time >= 1]_vars

\* C2 witness: both inputs were given in the first second of a round and
\* the outcome was recorded 1 second after the round's start.
C2_Witness ==
    /\ resolved = 1
    /\ gw.round_processed
    /\ gw.player_call \in 0..5
    /\ gw.reaction_times # <<>>
    /\ Last(gw.reaction_times) = 1
    /\ now = gw.round_start_time + 1

\* C3: every round start_round opens while the session is PLAYING is
\* eventually resolved (at the latest by its 15-second timeout).
C3_TimeoutLiveness ==
    (roundNo > 0 /\ gw.state = PLAYING)
        ~> (resolved > 0 \/ gw.state # PLAYING)

\* C4: with total = player gesture + computer gesture, a resolution adds 1
\* to score_player exactly when playerCall = total and playerCall #
\* computerCall, 1 to score_computer exactly when computerCall = total and
\* playerCall # computerCall, and 1 to score_draws in every other case; the
\* record it appends names that result.
C4_OutcomeRule ==
    [][Scored =>
        LET pc == gw'.player_call
            cc == gw'.computer_call
            total == GestureValue(gw'.player_gesture)
                     + GestureValue(gw'.computer_gesture)
            win == pc = total /\ pc # cc
            lose == cc = total /\ pc # cc
        IN /\ gw'.score_player = gw.score_player + (IF win THEN 1 ELSE 0)
           /\ gw'.score_computer = gw.score_computer + (IF lose THEN 1 ELSE 0)
           /\ gw'.score_draws
                = gw.score_draws + (IF win \/ lose THEN 0 ELSE 1)
           /\ Last(gw'.round_records).total = total
           /\ Last(gw'.round_records).result
                = (IF win THEN "PlayerWin"
                   ELSE IF lose THEN "ComputerWin" ELSE "Draw")]_vars

\* C4 witness: a round the player won (the call equals the total and
\* differs from the computer's call) has been scored for the player.
C4_Witness ==
    /\ resolved = 1
    /\ gw.round_processed
    /\ gw.player_call
         = GestureValue(gw.player_gesture) + GestureValue(gw.computer_gesture)
    /\ gw.player_call # gw.computer_call
    /\ gw.score_player = 1
    /\ gw.score_draws = 0

C9_SingleWriter ==
    [][voicePc = "in" => ~GuiStep]_vars

\* C10: once an exit command has closed the window the session state is
\* Finished.
C10_ExitFinishes ==
    proc = "closed" => gw.state = FINISHED

\* This step ran end_game from a timer.
EndGameStep ==
    /\ TimerFire
    /\ \E t \in BagToSet(timers) :
          t.cb = "end_game" /\ t.due <= now /\ timers' = timers (-) SetToBag({t})

C12_ValidRounds ==
    [][IF Scored
       THEN gw'.valid_rounds
              = gw.valid_rounds
                + (IF Last(gw'.round_records).result # "Draw" THEN 1 ELSE 0)
       ELSE \/ gw'.valid_rounds = gw.valid_rounds
            \/ (Click \/ VoiceEnter) /\ gw'.valid_rounds = 0]_vars

\* C12 witness: one round was won by the player, one valid round counted.
C12_Witness ==
    /\ resolved = 1
    /\ gw.round_records # <<>>
    /\ Last(gw.round_records).result = "PlayerWin"
    /\ gw.valid_rounds = 1
    /\ gw.score_draws = 0

\* C13: round_records never holds more than 3 entries; a resolution appends
\* its summary as the newest entry and, when 3 are held, evicts the oldest
\* and keeps the other two in order.
C13_BoundedHistory ==
    [][/\ Len(gw'.round_records) <= 3
       /\ Scored =>
            LET old == gw.round_records
                new == gw'.round_records
            IN /\ new # <<>>
               /\ Last(new).pg = gw'.player_gesture
               /\ Last(new).pc = gw'.player_call
               /\ Last(new).cg = gw'.computer_gesture
               /\ Last(new).cc = gw'.computer_call
               /\ IF Len(old) < 3
                  THEN Len(new) = Len(old) + 1
                       /\ SubSeq(new, 1, Len(old)) = old
                  ELSE Len(new) = 3
                       /\ new[1] = old[2] /\ new[2] = old[3]]_vars

\* C13 witness: after a fifth resolution in the session, a draw, the three
\* records are those of the third, fourth and fifth resolution.
C13_Witness ==
    /\ gw.score_player + gw.score_computer + gw.score_draws = 5
    /\ Len(gw.round_records) = 3
    /\ gw.round_records[1] = late_record
    /\ gw.round_records[2] = late_record
    /\ gw.round_records[3].result = "Draw"

\* The least index of a character of text whose table value is in S; 0 if
\* the text has none.
FirstIndex(text, S) ==
    LET I == { i \in 1..Len(text) : cn_num(text[i]) \in S }
    IN IF I = {} THEN 0 ELSE CHOOSE i \in I : \A j \in I : i <= j
\* The values of the digit table.
TableValues == 0..10 \cup {100, 1000, 10000}

\* C14: the result of extract_number is fixed by the first character of the
\* text that is in the digit table: its value if that is in 0..5, no call
\* if it is not, whatever follows that character.
C14_FirstMatch ==
    [][ExtractCall =>
        LET i == FirstIndex(voiceText, TableValues)
        IN gw'.player_call
             = (IF i # 0 /\ cn_num(voiceText[i]) \in 0..5
                THEN cn_num(voiceText[i]) ELSE NoCall)]_vars

\* C14 amended: the result of extract_number is the value of the first
\* character of the text whose table value is in 0..5, and no call if the
\* text has no such character; table characters with a value outside 0..5
\* are passed over.
C14_FirstInRange ==
    [][ExtractCall =>
        LET i == FirstIndex(voiceText, 0..5)
        IN gw'.player_call
             = (IF i # 0 THEN cn_num(voiceText[i]) ELSE NoCall)]_vars

\* C14 witness: extract_number was applied to "八三", whose first table
\* character is out of range, and gave 3.
C14_Witness ==
    /\ voicePc = "called"
    /\ voiceText = <<"ba", "san">>
    /\ gw.player_call = 3

\* C15: the result of extract_number is no call or an integer in 0..5; "三"
\* gives 3, "两" gives 2, "零" gives 0; a text with no table character of a
\* value in 0..5 (as "八", or the empty text) gives no call; nothing but the
\* call is changed.
C15_RangeAndAbsence ==
    [][ExtractCall =>
        /\ gw'.player_call \in {NoCall} \cup 0..5
        /\ voiceText = <<"san">> => gw'.player_call = 3
        /\ voiceText = <<"liang">> => gw'.player_call = 2
        /\ voiceText = <<"ling">> => gw'.player_call = 0
        /\ voiceText = <<"ba">> => gw'.player_call = NoCall
        /\ voiceText = <<>> => gw'.player_call = NoCall
        /\ (\A i \in 1..Len(voiceText) : cn_num(voiceText[i]) \notin 0..5)
              => gw'.player_call = NoCall
        /\ gw' = [gw EXCEPT !.player_call = gw'.player_call]
        /\ timers' = timers]_vars

\* C15 witness: extract_number was applied to "两" and gave 2.
C15_Witness ==
    /\ voicePc = "called"
    /\ voiceText = <<"liang">>
    /\ gw.player_call = 2

C17_GestureAcceptance ==
    (proc = "running" /\ RoundAwaiting) =>
        \A g \in CameraFeed, cg \in GestureChoices, cc \in CallChoices :
            LET c == on_gesture_detected(Ctx(gw), g, cg, cc)
            IN /\ c.exc = "none"
               /\ IF g \in {"0", "5"} THEN c.w.player_gesture = g
                  ELSE c.w = gw

\* C18: in an open round on_voice_input, past its two command branches,
\* sets player_call to extract_number(text) if that is a number and changes
\* nothing if it is not; it raises no error.
C18_CallAcceptance ==
    (proc = "running" /\ RoundAwaiting /\ voicePc = "in") =>
        \A cg \in GestureChoices, cc \in CallChoices :
            LET c == voice_number(Ctx(gw), voiceText, cg, cc)
            IN /\ c.exc = "none"
               /\ IF extract_number(voiceText) # NoCall
                  THEN c.w.player_call = extract_number(voiceText)
                  ELSE c.w = gw

\* C19: every execution of start_round clears the four inputs and
\* round_processed, records the start time and arms the timeout 15 seconds
\* later, and the process goes on.
C19_StartRoundCompletes ==
    [][StartedRound =>
        /\ gw'.player_gesture = NoGesture /\ gw'.player_call = NoCall
        /\ gw'.computer_gesture = NoGesture /\ gw'.computer_call = NoCall
        /\ ~gw'.round_processed
        /\ gw'.round_start_time = now'
        /\ proc' = "running"
        /\ \E t \in BagToSet(timers') :
              /\ t.cb = "auto_process_round"
              /\ t.due = now' + 15
              /\ t.rnd = roundNo']_vars

\* The number of pending follow-up timers.
FollowUps(b) ==
    LET S == { t \in BagToSet(b) : t.cb \in {"start_round", "end_game"} }
        RECURSIVE count(_)
        count(T) == IF T = {} THEN 0
                    ELSE LET t == CHOOSE x \in T : TRUE
                         IN CopiesIn(t, b) + count(T \ {t})
    IN count(S)

---------------------------------------------------------------------------
(* Session ledger, sources and the AudioProcessor *)

\* The ledger of a session.
Ledger(w) ==
    <<w.score_player, w.score_computer, w.score_draws, w.valid_rounds,
      w.reaction_times, w.round_records>>

LedgerSum(w) == w.score_player + w.score_computer + w.score_draws

\* A click that ran start_game (the other buttons close the window).
StartGameStep == Click /\ proc' # "closed"

\* A start_round armed by start_game is pending.
ReadyPending ==
    \E t \in BagToSet(timers) : t.cb = "start_round" /\ t.delay = READY_DELAY

\* The session begun by start_game has not opened a round: no round is
\* open and the start_round that start_game armed is pending.
FreshReady == ReadyPending /\ ~RoundAwaiting

C22_SourceErrorNotFatal ==
    [][CameraError =>
        /\ gw' = [gw EXCEPT !.status = gw'.status]
        /\ timers' = timers
        /\ proc' = proc
        /\ roundNo' = roundNo /\ resolved' = resolved
        /\ (RoundAwaiting =>
              \E t \in BagToSet(timers') :
                 /\ t.cb = "auto_process_round"
                 /\ t.due = gw'.round_start_time + ROUND_TIMEOUT)]_vars

\* A camera error was reported while a round is open, its timeout armed.
C22_Witness ==
    /\ gw.status = "camera_error"
    /\ RoundAwaiting
    /\ proc = "running"
    /\ \E t \in BagToSet(timers) :
          t.cb = "auto_process_round" /\ t.rnd = roundNo

\* Both inputs of the open round are there and the round is younger than
\* one second.
BothEarly ==
    /\ proc = "running"
    /\ RoundAwaiting
    /\ gw.player_gesture # NoGesture
    /\ gw.player_call # NoCall
    /\ TooEarly(now - gw.round_start_time)

C24_LedgerConsistency ==
    [][/\ gw'.valid_rounds = gw'.score_player + gw'.score_computer
       /\ LedgerSum(gw') = Len(gw'.reaction_times)
       /\ LedgerSum(gw') = (IF StartGameStep THEN 0
                            ELSE IF Scored THEN LedgerSum(gw) + 1
                            ELSE LedgerSum(gw))]_vars

\* Two resolutions since the last start_game.
C24_Witness ==
    /\ LedgerSum(gw) = 2
    /\ Len(gw.reaction_times) = 2

\* The step filled in the player's call: the call was missing and the audio
\* thread, the only other writer of the call, is not in on_voice_input.
AutoFilled ==
    gw.player_call = NoCall /\ gw'.player_call # NoCall /\ voicePc = "idle"

\* C25: a resolution whose player call the timeout filled in is a draw and
\* leaves valid_rounds; valid_rounds grows only in a resolution with a
\* call in 0..5, which only a voice call can be.
C25_AutoFillDraws ==
    [][/\ (AutoFilled /\ Scored) =>
            /\ Last(gw'.round_records).result = "Draw"
            /\ gw'.valid_rounds = gw.valid_rounds
            /\ gw'.score_draws = gw.score_draws + 1
       /\ (gw'.valid_rounds > gw.valid_rounds) =>
            /\ Scored
            /\ gw'.player_call \in 0..5]_vars

\* A round with a gesture and an auto-filled call was resolved.
C25_Witness ==
    /\ resolved = 1
    /\ gw.round_processed
    /\ gw.player_call \in CallChoices
    /\ Last(gw.round_records).result = "Draw"
    /\ gw.valid_rounds = 0

\* C26: score_computer is 0 in every reachable state.
C26_ComputerNeverWins == gw.score_computer = 0

\* A round with a voice call that missed the total was resolved.
C26_Witness ==
    /\ resolved = 1
    /\ gw.round_processed
    /\ gw.player_call \in 0..5
    /\ gw.player_call # Last(gw.round_records).total
    /\ gw.score_computer = 0

\* C27: while running is true the processing thread started last goes on
\* consuming (a sentinel in the queue does not end it), and no other
\* processing thread is alive.
C27_Restart ==
    /\ ap.others = 0
    /\ gw.audio_running => ap.processing_thread \in Alive

\* C28: between a start() and the following stop() every text passed to the
\* callback is non-empty and differs from the one passed before it.
C28_Dedup ==
    \A i \in 1..Len(ap.heard) :
        /\ ap.heard[i] # <<>>
        /\ i > 1 => ap.heard[i] # ap.heard[i - 1]

\* Two texts were delivered since start(), the second one remembered.
C28_Witness ==
    /\ Len(ap.heard) = 2
    /\ ap.last_text = ap.heard[2]
    /\ gw.audio_running

\* C29: no transcript is delivered while the state is WAITING (the
\* AudioProcessor does not run then), and no delivery runs start_game.
C29_NoVoiceWhileWaiting ==
    [][/\ gw'.state = WAITING => ~gw'.audio_running
       /\ VoiceEnter =>
            /\ gw.state # WAITING
            /\ gw'.state = gw.state
            /\ timers' = timers]_vars

\* The start command was delivered during a session.
C29_Witness ==
    /\ voicePc = "in"
    /\ voiceText = StartPhrase
    /\ gw.state = PLAYING

\* C30: once closeEvent has completed, running is false, the input stream
\* is not active (it was stopped and closed, or never opened) and the
\* processing thread has ended or is at the loop test that ends it.
C30_Teardown ==
    proc = "closed" =>
        /\ ~gw.audio_running
        /\ ap.stream # "active"
        /\ ap.processing_thread \in {"none", "top", "ended"}

---------------------------------------------------------------------------
(* The camera's retry budget *)

\* The thread is inside initialize_camera.
InInitialize == cam.pc \in {"init", "open"}

\* C31: initialize_camera terminates; it returns True on a successful open
\* and False, after emitting error_occurred, only with retry_count at
\* max_retries, and run ends then; retry_count never decreases and never
\* exceeds max_retries, and no more than max_retries attempts fail in the
\* life of the thread.
C31_RetryBudget ==
    /\ [](/\ cam.retry_count <= max_retries
          /\ cam.failed <= max_retries
          /\ cam.failed = cam.retry_count)
    /\ [][/\ cam'.retry_count >= cam.retry_count
          /\ (cam.pc = "open" /\ cam'.pc = "loop") =>
                /\ cam'.result = "True"
                /\ cam'.cap = "open"
                /\ cam'.failed = cam.failed
          /\ (InInitialize /\ cam'.pc = "ended") =>
                /\ cam.retry_count = max_retries
                /\ cam'.result = "False"
                /\ cam'.signals = Append(cam.signals, "error")]_vars
    /\ (InInitialize ~> ~InInitialize)
    /\ ((cam.pc = "init" /\ cam.retry_count = max_retries)
           ~> cam.pc = "ended")

\* The budget ran out after the camera had been opened and a frame had
\* failed: initialize_camera returned False and run has ended.
C31_Witness ==
    /\ cam.pc = "ended"
    /\ cam.running
    /\ cam.result = "False"
    /\ cam.opens >= 1
    /\ cam.failed = max_retries

=============================================================================
